---------------------------- MODULE Spec2Model ----------------------------
(***************************************************************************)
(* A model of the academic task server (src/src/notion_mcp/server.py):     *)
(* the title parser parse_task_type, the two lifecycle operations          *)
(* create_assignment_with_countdown and complete_task_with_logic, the      *)
(* store calls they issue, and the dispatcher call_tool.                   *)
(*                                                                         *)
(* Python strings are sequences of one-character strings; "sup2" stands    *)
(* for the character U+00B2 (superscript two), for which str.isdigit() is  *)
(* true and int() raises ValueError.  A Python call either returns a value *)
(* or raises: Return(v) and Raise(e).                                      *)
(***************************************************************************)
EXTENDS Integers, Sequences, FiniteSets, TLC

VARIABLES
    form,     \* how the title handed to the parser was put together
    title,    \* the string handed to parse_task_type
    desc,     \* what parse_task_type did with it (NoResult before the call)
    store,    \* the remote database: its pages, in the order they were created
    today,    \* datetime.now(), as <<year, month, day>>
    pc,       \* where the command being handled is: "idle", an await point, "done"
    cmd,      \* the command being handled: its name, its arguments, the store as it began
    loc,      \* the local variables of the function that is running
    calls,    \* the store calls the command has issued so far, in order
    result,   \* what call_tool returned for the command (NoResult while it runs)
    ncmds     \* how many commands have been accepted

parseVars == <<form, title, desc>>
storeVars == <<store, today, pc, cmd, loc, calls, result, ncmds>>
vars == <<form, title, desc, store, today, pc, cmd, loc, calls, result, ncmds>>

----------------------------------------------------------------------------
(* Bounds of the model *)

MaxLen == 3     \* longest raw title and longest description
MaxTok == 1     \* longest subject token
MaxCmds == 1    \* commands handled in one behaviour

----------------------------------------------------------------------------
(* Python values *)

Return(v) == [exc |-> "", value |-> v]
Raise(e) == [exc |-> e]
NoResult == [exc |-> "none"]

RECURSIVE Strs(_, _)
Strs(chars, n) ==
    IF n = 0 THEN {<<>>}
    ELSE LET shorter == Strs(chars, n - 1)
         IN  shorter \cup {Append(s, c) : s \in {t \in shorter : Len(t) = n - 1}, c \in chars}

----------------------------------------------------------------------------
(* str methods used by parse_task_type *)

\* str.isspace() of one character: what strip() removes and split() splits on
IsSpace(c) == c \in {" ", "\t"}

DecDigits == {"0", "1", "2", "3", "4", "5", "6", "7", "8", "9"}

\* str.isdigit() of one character: the decimal digits and the superscripts
IsDigitChar(c) == c \in DecDigits \cup {"sup2"}

DigitVal(c) ==
    CASE c = "0" -> 0 [] c = "1" -> 1 [] c = "2" -> 2 [] c = "3" -> 3
      [] c = "4" -> 4 [] c = "5" -> 5 [] c = "6" -> 6 [] c = "7" -> 7
      [] c = "8" -> 8 [] c = "9" -> 9

RECURSIVE LStrip(_)
LStrip(s) == IF s # <<>> /\ IsSpace(Head(s)) THEN LStrip(Tail(s)) ELSE s

RECURSIVE RStrip(_)
RStrip(s) ==
    IF s # <<>> /\ IsSpace(s[Len(s)]) THEN RStrip(SubSeq(s, 1, Len(s) - 1)) ELSE s

\* s.strip()
Strip(s) == RStrip(LStrip(s))

\* s.isdigit(): false for the empty string
StrIsDigit(s) == s # <<>> /\ \A i \in 1..Len(s) : IsDigitChar(s[i])

\* s.startswith(p)
StartsWith(s, p) == Len(s) >= Len(p) /\ SubSeq(s, 1, Len(p)) = p

\* s.endswith(c) for a one-character c
EndsWithChar(s, c) == s # <<>> /\ s[Len(s)] = c

\* c in s
Contains(s, c) == \E i \in 1..Len(s) : s[i] = c

\* s.find(c) + 1: the place of the first c, 0 when there is none
Find(s, c) ==
    IF Contains(s, c)
    THEN CHOOSE i \in 1..Len(s) : s[i] = c /\ \A j \in 1..(i - 1) : s[j] # c
    ELSE 0

\* s.split(c, 1): one or two parts around the first c
Split1(s, c) ==
    LET i == Find(s, c)
    IN  IF i = 0 THEN <<s>>
        ELSE <<SubSeq(s, 1, i - 1), SubSeq(s, i + 1, Len(s))>>

\* s.split(c, 2): up to three parts around the first two c
Split2(s, c) ==
    LET first == Split1(s, c)
    IN  IF Len(first) = 1 THEN first ELSE <<first[1]>> \o Split1(first[2], c)

\* s.split(): the maximal runs of non-whitespace characters
RECURSIVE SplitWs(_)
SplitWs(s) ==
    LET t == LStrip(s)
    IN  IF t = <<>> THEN <<>>
        ELSE LET ends == {i \in 1..Len(t) : IsSpace(t[i])}
                 n == IF ends = {} THEN Len(t)
                      ELSE (CHOOSE i \in ends : \A j \in ends : i <= j) - 1
             IN  <<SubSeq(t, 1, n)>> \o SplitWs(SubSeq(t, n + 1, Len(t)))

RECURSIVE DecValue(_)
DecValue(s) ==
    IF s = <<>> THEN 0
    ELSE 10 * DecValue(SubSeq(s, 1, Len(s) - 1)) + DigitVal(s[Len(s)])

\* int(s): surrounding whitespace is ignored, then decimal digits only
IntOf(s) ==
    LET t == Strip(s)
    IN  IF t # <<>> /\ \A i \in 1..Len(t) : t[i] \in DecDigits
        THEN Return(DecValue(t))
        ELSE Raise("ValueError")

----------------------------------------------------------------------------
(* parse_task_type *)

H == <<"H">>
HTN == <<"H", "T", "N">>
Q == <<"Q">>
SP == <<" ">>

Part(parts, i) == IF Len(parts) >= i THEN parts[i] ELSE <<>>

\* mutant: the prefix 'HTN ' is forgotten
IsAssignmentTitle_noHTN(t) ==
    StartsWith(t, H \o SP) \/ StartsWith(t, Q \o SP)

IsAssignmentTitle(t) ==
    StartsWith(t, H \o SP) \/ StartsWith(t, HTN \o SP) \/ StartsWith(t, Q \o SP)

parse_assignment(t) ==
    LET parts == Split2(t, " ")
    IN  Return([type |-> "assignment", assignment_type |-> parts[1],
                subject |-> Part(parts, 2), description |-> Part(parts, 3),
                is_main_task |-> TRUE])

\* mutant: title.split(' ') without the limit of two splits
parse_countdown_splitall(t) ==
    LET parts == Split2(t, " ")
        days_left == IntOf(parts[1])
    IN  IF days_left.exc # "" THEN days_left
        ELSE Return([type |-> "countdown", days_left |-> days_left.value,
                     subject |-> Part(parts, 2),
                     description |-> Split1(Part(parts, 3), " ")[1],
                     is_main_task |-> FALSE])

parse_countdown(t) ==
    LET parts == Split2(t, " ")
        days_left == IntOf(parts[1])
    IN  IF days_left.exc # "" THEN days_left
        ELSE Return([type |-> "countdown", days_left |-> days_left.value,
                     subject |-> Part(parts, 2), description |-> Part(parts, 3),
                     is_main_task |-> FALSE])

\* mutant: the description is not stripped
parse_priority_nostrip(t) ==
    LET parts == Split1(t, "*")
        priority == IntOf(Strip(parts[1]))
    IN  IF priority.exc # "" THEN priority
        ELSE Return([type |-> "priority", priority |-> priority.value,
                     description |-> parts[2], is_main_task |-> FALSE])

parse_priority(t) ==
    LET parts == Split1(t, "*")
        priority == IntOf(Strip(parts[1]))
    IN  IF priority.exc # "" THEN priority
        ELSE Return([type |-> "priority", priority |-> priority.value,
                     description |-> Strip(parts[2]), is_main_task |-> FALSE])

parse_regular(t) ==
    Return([type |-> "regular", description |-> t, is_main_task |-> FALSE])

parse_task_type(raw) ==
    LET t == Strip(raw)
    IN  IF IsAssignmentTitle(t) THEN parse_assignment(t)
        ELSE IF SplitWs(t) = <<>> THEN Raise("IndexError")
        ELSE IF StrIsDigit(SplitWs(t)[1]) /\ ~EndsWithChar(t, "*") THEN parse_countdown(t)
        ELSE IF Contains(t, "*") /\ StrIsDigit(Strip(Split1(t, "*")[1])) THEN parse_priority(t)
        ELSE parse_regular(t)


----------------------------------------------------------------------------
(* The parser on its own: a title is put together, then parsed *)

RawChars == {"H", " ", "\t", "5", "*", "a", "sup2"}
DescChars == {"a", " ", "\t", "*"}
TokChars == {"a", "5", "*"}

Prefixes == {H, HTN, Q}
Tokens == Strs(TokChars, MaxTok) \ {<<>>}
Descs == Strs(DescChars, MaxLen)
Numerals == {<<"0">>, <<"5">>, <<"0", "7">>, <<"1", "2">>}
Priorities == 1..5

\* str(n) of a natural number
RECURSIVE IntToStr(_)
IntToStr(n) ==
    LET d == CHOOSE c \in DecDigits : DigitVal(c) = n % 10
    IN  IF n < 10 THEN <<d>> ELSE Append(IntToStr(n \div 10), d)

Forms ==
    [shape : {"raw"}, t : Strs(RawChars, MaxLen)]
      \cup [shape : {"assignment"}, p : Prefixes, s : Tokens, d : Descs]
      \cup [shape : {"countdown"}, n : Numerals, fields : 1..3, s : Tokens, d : Descs]
      \cup [shape : {"priority"}, n : Priorities, d : Descs]

\* the title of a form: "t", "p s d", "n", "n s", "n s d", "n* d"
TitleOf(f) ==
    CASE f.shape = "raw" -> f.t
      [] f.shape = "assignment" -> f.p \o SP \o f.s \o SP \o f.d
      [] f.shape = "countdown" ->
            f.n \o (IF f.fields >= 2 THEN SP \o f.s ELSE <<>>)
                \o (IF f.fields >= 3 THEN SP \o f.d ELSE <<>>)
      [] f.shape = "priority" -> IntToStr(f.n) \o <<"*">> \o SP \o f.d

\* a countdown form's fields that are absent from the title are not written at all
WellFormed(f) ==
    f.shape = "countdown" =>
        /\ (f.fields < 3 => f.d = <<>>)
        /\ (f.fields < 2 => f.s = CHOOSE t \in Tokens : TRUE)

ParseInit ==
    /\ form \in {f \in Forms : WellFormed(f)}
    /\ title = TitleOf(form)
    /\ desc = NoResult
    /\ store = <<>> /\ today = <<2024, 2, 29>> /\ pc = "idle"
    /\ cmd = [name |-> "none"] /\ loc = [fn |-> "none"] /\ calls = <<>>
    /\ result = NoResult /\ ncmds = 0

Parse ==
    /\ desc = NoResult
    /\ desc' = parse_task_type(title)
    /\ UNCHANGED <<form, title>>
    /\ UNCHANGED storeVars

ParseNext == Parse

SpecParse == ParseInit /\ [][ParseNext]_vars

Parsed == desc # NoResult
Returned == Parsed /\ desc.exc = ""
Kinds == {"assignment", "countdown", "priority", "regular"}

----------------------------------------------------------------------------
(* C1 *)

\* C1: parse_task_type is total: whatever the title, the call returns a
\* descriptor of one of the four kinds and never raises.
C1_Total == Parsed => desc.exc = "" /\ desc.value.type \in Kinds

\* C1 (the part that holds): a title that is not empty after trimming and whose
\* numeric prefix converts is given exactly one of the four kinds.
C1_RaisesOnlyIndexOrValueError ==
    Parsed /\ desc.exc # "" =>
        \/ desc.exc = "IndexError" /\ Strip(title) = <<>>
        \/ desc.exc = "ValueError" /\ Strip(title) # <<>>

----------------------------------------------------------------------------
(* C2 *)

\* C2 as stated: "p s d" parses to kind assignment with assignment_type p,
\* subject s, description d (as written) and is_main_task true; every other
\* kind has is_main_task false.
C2_AsStated ==
    Returned =>
        /\ form.shape = "assignment" =>
              desc.value = [type |-> "assignment", assignment_type |-> form.p,
                            subject |-> form.s, description |-> form.d,
                            is_main_task |-> TRUE]
        /\ desc.value.type # "assignment" => desc.value.is_main_task = FALSE

\* C2 amended: "p s d" parses (never raising) to kind assignment with
\* assignment_type p, subject s, is_main_task true and description d with its
\* trailing whitespace removed; every other kind has is_main_task false.
C2_Assignment ==
    Parsed =>
        /\ form.shape = "assignment" =>
              /\ desc.exc = ""
              /\ desc.value = [type |-> "assignment", assignment_type |-> form.p,
                               subject |-> form.s, description |-> RStrip(form.d),
                               is_main_task |-> TRUE]
        /\ desc.exc = "" /\ desc.value.type # "assignment" =>
              desc.value.is_main_task = FALSE

C2_Witness ==
    /\ Returned
    /\ form.shape = "assignment" /\ form.p = HTN
    /\ form.d # <<>> /\ RStrip(form.d) # form.d
    /\ desc.value.description = RStrip(form.d)

----------------------------------------------------------------------------
(* C3 *)

CountdownExpected(f, description) ==
    [type |-> "countdown", days_left |-> DecValue(f.n),
     subject |-> IF f.fields >= 2 THEN f.s ELSE <<>>,
     description |-> description, is_main_task |-> FALSE]

\* C3 as stated: "n s d" (or "n", "n s"), not ending with '*', parses to kind
\* countdown with days_left n, subject s and description d as written.
C3_AsStated ==
    Parsed /\ form.shape = "countdown" /\ ~EndsWithChar(title, "*") =>
        /\ desc.exc = ""
        /\ desc.value = CountdownExpected(form, form.d)

\* C3 amended: "n s d" (or "n", "n s") whose trimmed form does not end with
\* '*' parses to kind countdown with days_left n, subject s and description d
\* with its trailing whitespace removed.
C3_Countdown ==
    Parsed /\ form.shape = "countdown" /\ ~EndsWithChar(Strip(title), "*") =>
        /\ desc.exc = ""
        /\ desc.value = CountdownExpected(form, RStrip(form.d))

C3_Witness ==
    /\ Returned
    /\ form.shape = "countdown" /\ form.fields = 3 /\ form.n = <<"0", "7">>
    /\ Contains(form.d, "*") /\ RStrip(form.d) # form.d
    /\ desc.value.type = "countdown" /\ desc.value.days_left = 7

----------------------------------------------------------------------------
(* C4 *)

\* C4: "n* d" with n in 1..5 parses to kind priority with priority n and
\* description d trimmed on both sides; the countdown rule does not take it.
C4_Priority ==
    Parsed /\ form.shape = "priority" =>
        /\ desc.exc = ""
        /\ desc.value = [type |-> "priority", priority |-> form.n,
                         description |-> Strip(form.d), is_main_task |-> FALSE]
        /\ ~(StrIsDigit(SplitWs(Strip(title))[1]) /\ ~EndsWithChar(Strip(title), "*"))

C4_Witness ==
    /\ Returned
    /\ form.shape = "priority" /\ form.n = 5
    /\ EndsWithChar(form.d, "*") /\ Strip(form.d) # form.d
    /\ desc.value.type = "priority" /\ desc.value.priority = 5


----------------------------------------------------------------------------
(* datetime: strptime(s, "%Y-%m-%d"), strftime("%Y-%m-%d"), timedelta *)

IsLeap(y) == (y % 4 = 0 /\ y % 100 # 0) \/ y % 400 = 0

DaysInMonth(y, m) ==
    IF m = 2 THEN (IF IsLeap(y) THEN 29 ELSE 28)
    ELSE IF m \in {4, 6, 9, 11} THEN 30 ELSE 31

AllDecimal(s) == \A i \in 1..Len(s) : s[i] \in DecDigits

\* mutant: the format is matched, the day is not checked against the month
strptime_anyday(s) ==
    LET parts == Split2(s, "-")
    IN  IF /\ Len(parts) = 3
           /\ Len(parts[1]) = 4 /\ AllDecimal(parts[1])
           /\ Len(parts[2]) \in 1..2 /\ AllDecimal(parts[2])
           /\ Len(parts[3]) \in 1..2 /\ AllDecimal(parts[3])
           /\ DecValue(parts[1]) >= 1 /\ DecValue(parts[2]) \in 1..12
           /\ DecValue(parts[3]) \in 1..31
        THEN Return(<<DecValue(parts[1]), DecValue(parts[2]), DecValue(parts[3])>>)
        ELSE Raise("ValueError")

\* datetime.strptime(s, "%Y-%m-%d"): %Y is four digits, %m and %d one or two;
\* the date must exist.  (A day written " 5" is accepted too; no input has it.)
strptime(s) ==
    LET parts == Split2(s, "-")
        y == DecValue(parts[1])
        m == DecValue(parts[2])
        d == DecValue(parts[3])
    IN  IF /\ Len(parts) = 3
           /\ Len(parts[1]) = 4 /\ AllDecimal(parts[1])
           /\ Len(parts[2]) \in 1..2 /\ AllDecimal(parts[2])
           /\ Len(parts[3]) \in 1..2 /\ AllDecimal(parts[3])
           /\ y >= 1 /\ m \in 1..12 /\ d \in 1..DaysInMonth(y, m)
        THEN Return(<<y, m, d>>)
        ELSE Raise("ValueError")

RECURSIVE ZeroPad(_, _)
ZeroPad(s, width) == IF Len(s) >= width THEN s ELSE ZeroPad(<<"0">> \o s, width)

\* dt.strftime("%Y-%m-%d"), for the years from 1000 on (before, the padding of
\* %Y depends on the C library; no date of the model is that early)
strftime(dt) ==
    ZeroPad(IntToStr(dt[1]), 4) \o <<"-">> \o ZeroPad(IntToStr(dt[2]), 2)
        \o <<"-">> \o ZeroPad(IntToStr(dt[3]), 2)

\* dt - timedelta(days=1): before 0001-01-01 there is no date
PrevDay(dt) ==
    IF dt[3] > 1 THEN Return(<<dt[1], dt[2], dt[3] - 1>>)
    ELSE IF dt[2] > 1 THEN Return(<<dt[1], dt[2] - 1, DaysInMonth(dt[1], dt[2] - 1)>>)
    ELSE IF dt[1] > 1 THEN Return(<<dt[1] - 1, 12, 31>>)
    ELSE Raise("OverflowError")

\* dt - timedelta(days=n)
RECURSIVE MinusDays(_, _)
MinusDays(dt, n) ==
    IF n = 0 THEN Return(dt)
    ELSE LET prev == PrevDay(dt)
         IN  IF prev.exc # "" THEN prev ELSE MinusDays(prev.value, n - 1)

\* dt + timedelta(days=1)
NextDay(dt) ==
    IF dt[3] < DaysInMonth(dt[1], dt[2]) THEN <<dt[1], dt[2], dt[3] + 1>>
    ELSE IF dt[2] < 12 THEN <<dt[1], dt[2] + 1, 1>>
    ELSE <<dt[1] + 1, 1, 1>>

----------------------------------------------------------------------------
(* str.upper(), str.lower() *)

LowerLetters == <<"a", "b", "c", "d", "e", "f", "g", "h", "i", "j", "k", "l", "m",
                  "n", "o", "p", "q", "r", "s", "t", "u", "v", "w", "x", "y", "z">>
UpperLetters == <<"A", "B", "C", "D", "E", "F", "G", "H", "I", "J", "K", "L", "M",
                  "N", "O", "P", "Q", "R", "S", "T", "U", "V", "W", "X", "Y", "Z">>

UpperChar(c) ==
    IF \E i \in 1..Len(LowerLetters) : LowerLetters[i] = c
    THEN UpperLetters[CHOOSE i \in 1..Len(LowerLetters) : LowerLetters[i] = c]
    ELSE c

LowerChar(c) ==
    IF \E i \in 1..Len(UpperLetters) : UpperLetters[i] = c
    THEN LowerLetters[CHOOSE i \in 1..Len(UpperLetters) : UpperLetters[i] = c]
    ELSE c

Upper(s) == [i \in 1..Len(s) |-> UpperChar(s[i])]
Lower(s) == [i \in 1..Len(s) |-> LowerChar(s[i])]

----------------------------------------------------------------------------
(* The store: the pages of the database, and the three calls on it *)

\* the properties create_task sends: a property whose argument is falsy (None,
\* "", 0) is left out, which shows here as "", <<>> or 0
create_task(t, due_date, due_time, status, task_type, priority, related_task_id) ==
    [title |-> t,
     status |-> status,
     due |-> IF due_date # <<>>
             THEN (IF due_time # <<>>
                   THEN due_date \o <<"T">> \o due_time \o <<":", "0", "0">>
                   ELSE due_date)
             ELSE <<>>,
     priority |-> priority,
     type |-> task_type,
     related_task_id |-> related_task_id]

\* the page the store makes of the properties: it assigns the id
NewPage(s, props) ==
    [id |-> Len(s) + 1, title |-> props.title, status |-> props.status,
     due |-> props.due, priority |-> props.priority, type |-> props.type,
     related_task_id |-> props.related_task_id]

\* update_task_status(page_id, status) on the store
update_task_status(s, page_id, status) ==
    [i \in 1..Len(s) |-> IF s[i].id = page_id THEN [s[i] EXCEPT !.status = status] ELSE s[i]]

\* sub in s
IsSubstring(sub, s) ==
    \E i \in 1..(Len(s) - Len(sub) + 1) : SubSeq(s, i, i + Len(sub) - 1) = sub

\* mutant: pages already completed are not found
find_tasks_by_title_open(s, t) ==
    {i \in 1..Len(s) : IsSubstring(t, s[i].title) /\ s[i].status # "completed"}

\* find_tasks_by_title(title): the pages whose Name contains the title
find_tasks_by_title(s, t) == {i \in 1..Len(s) : IsSubstring(t, s[i].title)}

\* a failed store call: raise_for_status() raises, or the request itself does
StoreErrors == {"HTTPStatusError", "ConnectError"}

\* except Exception as e: return {'error': str(e)}
ErrorResult(e) == [error |-> e]

\* call_tool: [TextContent(type="text", text=json.dumps(result, indent=2))]
JsonPayload(r) == Return([type |-> "text", text |-> [json |-> r]])

----------------------------------------------------------------------------
(* add_assignment: create_assignment_with_countdown *)

\* status="due" if assignment_type in ['H', 'HTN', 'Q'] else ""
MainStatus(assignment_type) == IF assignment_type \in {H, HTN, Q} THEN "due" ELSE ""

\* mutant: the subject and the description are written as given
MainTitle_asgiven(a) == a.type \o SP \o a.subject \o SP \o a.description

\* main_title = f"{assignment_type} {subject.upper()} {description.upper()}"
MainTitle(a) == a.type \o SP \o Upper(a.subject) \o SP \o Upper(a.description)

\* countdown_title = f"5 {subject.lower()} {description.lower()}"
CountdownTitle(a) == <<"5">> \o SP \o Lower(a.subject) \o SP \o Lower(a.description)

\* mutant: a countdown date in the past is moved to today
CountdownDate_clamped(due_datetime) ==
    LET d == MinusDays(due_datetime, 5)
        earlier(a, b) ==
            \/ a[1] < b[1]
            \/ a[1] = b[1] /\ a[2] < b[2]
            \/ a[1] = b[1] /\ a[2] = b[2] /\ a[3] < b[3]
    IN  IF d.exc = "" /\ earlier(d.value, today) THEN Return(today) ELSE d

\* countdown_date = due_datetime - timedelta(days=5)
CountdownDate(due_datetime) == MinusDays(due_datetime, 5)

MainProps(a) ==
    create_task(MainTitle(a), a.due_date, a.due_time, MainStatus(a.type),
                "assignment", 0, 0)

\* mutant: the countdown is not linked to the anchor
CountdownProps_unlinked(a, countdown_date, main_id) ==
    create_task(CountdownTitle(a), strftime(countdown_date), <<>>, "",
                "countdown", 0, 0)

CountdownProps(a, countdown_date, main_id) ==
    create_task(CountdownTitle(a), strftime(countdown_date), <<>>, "",
                "countdown", 0, main_id)

CreatedResult(a, main_id, countdown_id) ==
    [main_task |-> main_id, countdown_task |-> countdown_id,
     message |-> [text |-> "Created {main_title} with 5-day countdown task",
                  main_title |-> MainTitle(a)]]

\* call_tool("add_assignment", arguments) up to the first store call
CallAddAssignment(a) ==
    /\ pc = "idle"
    /\ cmd' = [name |-> "add_assignment", args |-> a, before |-> store]
    /\ calls' = <<>>
    /\ ncmds' = ncmds + 1
    /\ LET due_datetime == strptime(a.due_date)
       IN  IF due_datetime.exc # ""
           THEN /\ pc' = "done"
                /\ loc' = [fn |-> "create_assignment_with_countdown"]
                /\ result' = JsonPayload(ErrorResult(due_datetime.exc))
           ELSE /\ pc' = "create_main"
                /\ loc' = [fn |-> "create_assignment_with_countdown",
                           due_datetime |-> due_datetime.value]
                /\ result' = NoResult
    /\ UNCHANGED <<store, today>>

\* main_task = await create_task(...), then up to the second store call
CreateMain ==
    /\ pc = "create_main"
    /\ LET props == MainProps(cmd.args)
           page == NewPage(store, props)
           countdown_date == CountdownDate(loc.due_datetime)
       IN  \/ /\ store' = Append(store, page)
              /\ calls' = Append(calls, [op |-> "create", ok |-> TRUE, page |-> page])
              /\ IF countdown_date.exc # ""
                 THEN /\ pc' = "done"
                      /\ result' = JsonPayload(ErrorResult(countdown_date.exc))
                      /\ loc' = [loc EXCEPT !.fn = "create_assignment_with_countdown"]
                 ELSE /\ pc' = "create_countdown"
                      /\ result' = result
                      /\ loc' = [fn |-> "create_assignment_with_countdown",
                                 due_datetime |-> loc.due_datetime,
                                 main_task |-> page.id,
                                 countdown_date |-> countdown_date.value]
           \/ \E e \in StoreErrors :
                /\ calls' = Append(calls, [op |-> "create", ok |-> FALSE, page |-> props])
                /\ pc' = "done"
                /\ result' = JsonPayload(ErrorResult(e))
                /\ UNCHANGED <<store, loc>>
    /\ UNCHANGED <<today, cmd, ncmds>>

\* mutant: a failed countdown create takes the anchor back out of the store
CreateCountdown_rollback ==
    /\ pc = "create_countdown"
    /\ LET props == create_task(CountdownTitle(cmd.args), strftime(loc.countdown_date),
                                <<>>, "", "countdown", 0, loc.main_task)
           page == NewPage(store, props)
       IN  \/ /\ store' = Append(store, page)
              /\ calls' = Append(calls, [op |-> "create", ok |-> TRUE, page |-> page])
              /\ result' = JsonPayload(CreatedResult(cmd.args, loc.main_task, page.id))
           \/ \E e \in StoreErrors :
                /\ calls' = Append(calls, [op |-> "create", ok |-> FALSE, page |-> props])
                /\ result' = JsonPayload(ErrorResult(e))
                /\ store' = cmd.before
    /\ pc' = "done"
    /\ UNCHANGED <<today, cmd, loc, ncmds>>

\* countdown_task = await create_task(...), then the return
CreateCountdown ==
    /\ pc = "create_countdown"
    /\ LET props == CountdownProps(cmd.args, loc.countdown_date, loc.main_task)
           page == NewPage(store, props)
       IN  \/ /\ store' = Append(store, page)
              /\ calls' = Append(calls, [op |-> "create", ok |-> TRUE, page |-> page])
              /\ result' = JsonPayload(CreatedResult(cmd.args, loc.main_task, page.id))
           \/ \E e \in StoreErrors :
                /\ calls' = Append(calls, [op |-> "create", ok |-> FALSE, page |-> props])
                /\ result' = JsonPayload(ErrorResult(e))
                /\ UNCHANGED store
    /\ pc' = "done"
    /\ UNCHANGED <<today, cmd, loc, ncmds>>


----------------------------------------------------------------------------
(* complete_task: complete_task_with_logic *)

\* mutant: a lookup that finds nothing is reported as a completion
NotFoundResult_message(task_title) ==
    [message |-> [text |-> "Marked '{task_title}' as completed",
                  task_title |-> task_title]]

\* return {'error': f"Task '{task_title}' not found"}
NotFoundResult(task_title) ==
    [error |-> [text |-> "Task '{task_title}' not found", task_title |-> task_title]]

\* next_title = f"{next_day_count} {task_info['subject']} {task_info['description']}"
NextTitle(task_info) ==
    IntToStr(task_info.days_left - 1) \o SP \o task_info.subject
        \o SP \o task_info.description

\* mutant: a successor is created down to day zero
HasSuccessor_nonneg(task_info) ==
    task_info.type = "countdown" /\ task_info.days_left - 1 >= 0

\* if task_info['type'] == 'countdown': ... if next_day_count > 0:
HasSuccessor(task_info) ==
    task_info.type = "countdown" /\ task_info.days_left - 1 > 0

\* tomorrow = datetime.now() + timedelta(days=1)
SuccessorProps(task_info, now) ==
    create_task(NextTitle(task_info), strftime(NextDay(now)), <<>>, "",
                "countdown", 0, 0)

CompletedResult(task_title, task_info) ==
    IF task_info.type = "assignment"
    THEN [message |->
            [text |-> "Marked '{task_title}' complete and completed all related countdown tasks",
             task_title |-> task_title]]
    ELSE [message |-> [text |-> "Marked '{task_title}' as completed",
                       task_title |-> task_title]]

SuccessorResult(task_title, next_title) ==
    [message |->
        [text |-> "Marked '{task_title}' complete and created '{next_title}' for tomorrow",
         task_title |-> task_title, next_title |-> next_title]]

\* call_tool("complete_task", arguments) up to the first store call
CallCompleteTask(task_title) ==
    /\ pc = "idle"
    /\ cmd' = [name |-> "complete_task", args |-> [task_title |-> task_title],
               before |-> store]
    /\ loc' = [fn |-> "complete_task_with_logic"]
    /\ calls' = <<>>
    /\ result' = NoResult
    /\ ncmds' = ncmds + 1
    /\ pc' = "find"
    /\ UNCHANGED <<store, today>>

\* tasks = await find_tasks_by_title(task_title), then up to the status update;
\* tasks[0] is whichever match the store lists first
FindTask ==
    /\ pc = "find"
    /\ LET task_title == cmd.args.task_title
           tasks == find_tasks_by_title(store, task_title)
           task_info == parse_task_type(task_title)
           query(ok, n) == [op |-> "query", ok |-> ok, contains |-> task_title,
                            results |-> n]
       IN  \/ /\ tasks = {}
              /\ calls' = Append(calls, query(TRUE, 0))
              /\ pc' = "done"
              /\ result' = JsonPayload(NotFoundResult(task_title))
              /\ loc' = loc
           \/ \E first \in tasks :
                /\ calls' = Append(calls, query(TRUE, Cardinality(tasks)))
                /\ IF task_info.exc # ""
                   THEN /\ pc' = "done"
                        /\ result' = JsonPayload(ErrorResult(task_info.exc))
                        /\ loc' = [fn |-> "complete_task_with_logic",
                                   task |-> store[first]]
                   ELSE /\ pc' = "update"
                        /\ result' = result
                        /\ loc' = [fn |-> "complete_task_with_logic",
                                   task |-> store[first],
                                   task_info |-> task_info.value]
           \/ \E e \in StoreErrors :
                /\ calls' = Append(calls, query(FALSE, 0))
                /\ pc' = "done"
                /\ result' = JsonPayload(ErrorResult(e))
                /\ loc' = loc
    /\ UNCHANGED <<store, today, cmd, ncmds>>

\* await update_task_status(task['id'], "completed"), then up to the create or
\* the return
UpdateStatus ==
    /\ pc = "update"
    /\ \/ /\ store' = update_task_status(store, loc.task.id, "completed")
          /\ calls' = Append(calls, [op |-> "update", ok |-> TRUE, id |-> loc.task.id,
                                     status |-> "completed"])
          /\ IF HasSuccessor(loc.task_info)
             THEN pc' = "create_next" /\ result' = result
             ELSE /\ pc' = "done"
                  /\ result' = JsonPayload(CompletedResult(cmd.args.task_title,
                                                           loc.task_info))
       \/ \E e \in StoreErrors :
            /\ calls' = Append(calls, [op |-> "update", ok |-> FALSE, id |-> loc.task.id,
                                       status |-> "completed"])
            /\ pc' = "done"
            /\ result' = JsonPayload(ErrorResult(e))
            /\ UNCHANGED store
    /\ UNCHANGED <<today, cmd, loc, ncmds>>

\* await create_task(title=next_title, ...), then the return
CreateNext ==
    /\ pc = "create_next"
    /\ LET props == SuccessorProps(loc.task_info, today)
           page == NewPage(store, props)
       IN  \/ /\ store' = Append(store, page)
              /\ calls' = Append(calls, [op |-> "create", ok |-> TRUE, page |-> page])
              /\ result' = JsonPayload(SuccessorResult(cmd.args.task_title,
                                                       NextTitle(loc.task_info)))
           \/ \E e \in StoreErrors :
                /\ calls' = Append(calls, [op |-> "create", ok |-> FALSE, page |-> props])
                /\ result' = JsonPayload(ErrorResult(e))
                /\ UNCHANGED store
    /\ pc' = "done"
    /\ UNCHANGED <<today, cmd, loc, ncmds>>

\* the command has returned; the server waits for the next one
Finish ==
    /\ pc = "done"
    /\ pc' = "idle"
    /\ UNCHANGED <<store, today, cmd, loc, calls, result, ncmds>>

----------------------------------------------------------------------------
(* call_tool: the other commands, and the calls it turns down itself *)

\* mutant: call_tool without its except clause
ErrorPayload_raises(e) == Raise(e)

\* except Exception as e: return [TextContent(type="text", text=f"Error: {str(e)}")]
ErrorPayload(e) == Return([type |-> "text", text |-> [fmt |-> "Error: {e}", e |-> e]])

\* [TextContent(type="text", text=json.dumps(tasks, indent=2))] of a list
JsonListPayload(l) == Return([type |-> "text", text |-> [json_list |-> l]])

\* mutant: the star is left out of the title
PriorityTitle_nostar(priority, description) ==
    IntToStr(priority) \o SP \o description

\* title = f"{priority}* {description}"
PriorityTitle(priority, description) ==
    IntToStr(priority) \o <<"*">> \o SP \o description

PriorityProps(a) ==
    create_task(PriorityTitle(a.priority, a.description), <<>>, <<>>, "",
                "priority", a.priority, 0)

\* [TextContent(type="text", text=f"Added priority task: {title}")]
AddedPayload(t) ==
    Return([type |-> "text", text |-> [fmt |-> "Added priority task: {title}", title |-> t]])

\* the placeholder text of add_syllabus_bulk
SyllabusPayload ==
    Return([type |-> "text",
            text |-> [fmt |-> "Syllabus bulk import feature - ready to implement with your syllabus format"]])

\* a page as the two listings format it; the listing of all tasks adds due_date
FormatTask(page, with_due) ==
    IF with_due
    THEN [id |-> page.id, title |-> page.title, status |-> page.status,
          due_date |-> page.due, type |-> page.type]
    ELSE [id |-> page.id, title |-> page.title, status |-> page.status,
          type |-> page.type]

FormatTasks(pages, with_due) == [i \in 1..Len(pages) |-> FormatTask(pages[i], with_due)]

\* formatting raises when a listed page carries a property whose value is null
\* (props["Status"]["select"] is None): the store may send an empty property so
FormatMayRaise(pages) == \E i \in 1..Len(pages) : pages[i].status = ""

\* "filter": {"property": "Due Date", "date": {"equals": today}}
DueOn(s, day) == SelectSeq(s, LAMBDA page : StartsWith(page.due, strftime(day)))

\* call_tool(name, arguments) with arguments that are no dict (ValueError) or
\* lack a required key (KeyError): nothing is called
CallRejected(tool, e) ==
    /\ pc = "idle"
    /\ cmd' = [name |-> "rejected", tool |-> tool, before |-> store]
    /\ loc' = [fn |-> "call_tool"]
    /\ calls' = <<>>
    /\ ncmds' = ncmds + 1
    /\ pc' = "done"
    /\ result' = ErrorPayload(e)
    /\ UNCHANGED <<store, today>>

\* call_tool(name, arguments) with a name that is none of the six
CallUnknown(name) ==
    /\ pc = "idle"
    /\ cmd' = [name |-> "unknown", tool |-> name, before |-> store]
    /\ loc' = [fn |-> "call_tool"]
    /\ calls' = <<>>
    /\ ncmds' = ncmds + 1
    /\ pc' = "done"
    /\ result' = ErrorPayload("Unknown tool: {name}")
    /\ UNCHANGED <<store, today>>

\* mutant: the bulk import stores a page
CallAddSyllabusBulk_imports ==
    /\ pc = "idle"
    /\ cmd' = [name |-> "add_syllabus_bulk", before |-> store]
    /\ loc' = [fn |-> "call_tool"]
    /\ LET page == NewPage(store, create_task(<<"s">>, <<>>, <<>>, "", "regular", 0, 0))
       IN  /\ store' = Append(store, page)
           /\ calls' = <<[op |-> "create", ok |-> TRUE, page |-> page]>>
    /\ ncmds' = ncmds + 1
    /\ pc' = "done"
    /\ result' = SyllabusPayload
    /\ UNCHANGED today

\* call_tool("add_syllabus_bulk", arguments)
CallAddSyllabusBulk ==
    /\ pc = "idle"
    /\ cmd' = [name |-> "add_syllabus_bulk", before |-> store]
    /\ loc' = [fn |-> "call_tool"]
    /\ calls' = <<>>
    /\ ncmds' = ncmds + 1
    /\ pc' = "done"
    /\ result' = SyllabusPayload
    /\ UNCHANGED <<store, today>>

\* call_tool("add_priority_task", arguments) up to the store call
CallAddPriorityTask(a) ==
    /\ pc = "idle"
    /\ cmd' = [name |-> "add_priority_task", args |-> a, before |-> store]
    /\ loc' = [fn |-> "call_tool", title |-> PriorityTitle(a.priority, a.description)]
    /\ calls' = <<>>
    /\ result' = NoResult
    /\ ncmds' = ncmds + 1
    /\ pc' = "create_priority"
    /\ UNCHANGED <<store, today>>

\* result = await create_task(title=title, task_type="priority", priority=priority)
CreatePriority ==
    /\ pc = "create_priority"
    /\ LET props == PriorityProps(cmd.args)
           page == NewPage(store, props)
       IN  \/ /\ store' = Append(store, page)
              /\ calls' = Append(calls, [op |-> "create", ok |-> TRUE, page |-> page])
              /\ result' = AddedPayload(loc.title)
           \/ \E e \in StoreErrors :
                /\ calls' = Append(calls, [op |-> "create", ok |-> FALSE, page |-> props])
                /\ result' = ErrorPayload(e)
                /\ UNCHANGED store
    /\ pc' = "done"
    /\ UNCHANGED <<today, cmd, loc, ncmds>>

\* call_tool("show_today_tasks", arguments) up to the store call
CallShowTodayTasks ==
    /\ pc = "idle"
    /\ cmd' = [name |-> "show_today_tasks", before |-> store]
    /\ loc' = [fn |-> "get_today_tasks", today |-> strftime(today)]
    /\ calls' = <<>>
    /\ result' = NoResult
    /\ ncmds' = ncmds + 1
    /\ pc' = "query_today"
    /\ UNCHANGED <<store, today>>

\* get_today_tasks: the query, the formatting, and except Exception: return []
QueryToday ==
    /\ pc = "query_today"
    /\ LET tasks == DueOn(store, today)
           query(ok, n) == [op |-> "query", ok |-> ok, due_equals |-> loc.today,
                            results |-> n]
       IN  \/ /\ calls' = Append(calls, query(TRUE, Len(tasks)))
              /\ \/ result' = JsonListPayload(FormatTasks(tasks, FALSE))
                 \/ FormatMayRaise(tasks) /\ result' = JsonListPayload(<<>>)
           \/ /\ calls' = Append(calls, query(FALSE, 0))
              /\ result' = JsonListPayload(<<>>)
    /\ pc' = "done"
    /\ UNCHANGED <<store, today, cmd, loc, ncmds>>

\* call_tool("show_all_tasks", arguments) up to the store call
CallShowAllTasks ==
    /\ pc = "idle"
    /\ cmd' = [name |-> "show_all_tasks", before |-> store]
    /\ loc' = [fn |-> "fetch_tasks"]
    /\ calls' = <<>>
    /\ result' = NoResult
    /\ ncmds' = ncmds + 1
    /\ pc' = "query_all"
    /\ UNCHANGED <<store, today>>

\* result = await fetch_tasks(), then the formatting (the store sorts the pages
\* by due date; they are listed here in the order of the store)
QueryAll ==
    /\ pc = "query_all"
    /\ LET query(ok, n) == [op |-> "query", ok |-> ok, sorts |-> "Due Date",
                            results |-> n]
       IN  \/ /\ calls' = Append(calls, query(TRUE, Len(store)))
              /\ \/ result' = JsonListPayload(FormatTasks(store, TRUE))
                 \/ FormatMayRaise(store) /\ result' = ErrorPayload("AttributeError")
           \/ \E e \in StoreErrors :
                /\ calls' = Append(calls, query(FALSE, 0))
                /\ result' = ErrorPayload(e)
    /\ pc' = "done"
    /\ UNCHANGED <<store, today, cmd, loc, ncmds>>

----------------------------------------------------------------------------
(* The server: commands arrive one at a time *)

AssignmentTypes == {H, HTN, Q, <<"X">>}
Subjects == {<<"B", "i", "o">>}
Descriptions == {<<"h", "W", "1">>}

ValidDueDates ==
    { <<"2", "0", "2", "4", "-", "0", "3", "-", "0", "3">>,   \* five days back: in February of a leap year
      <<"2", "0", "2", "4", "-", "3", "-", "6">>,             \* not padded
      <<"2", "0", "2", "3", "-", "0", "3", "-", "0", "2">>,   \* five days back: in February, no leap year
      <<"2", "0", "2", "5", "-", "0", "1", "-", "0", "4">>,   \* five days back: in the year before
      <<"0", "0", "0", "1", "-", "0", "1", "-", "0", "3">> }  \* five days back: before the first date
InvalidDueDates ==
    { <<"2", "0", "2", "3", "-", "0", "2", "-", "2", "9">>,   \* no such day
      <<"0", "3", "/", "0", "6", "/", "2", "0", "2", "4">>,   \* another format
      <<"s", "o", "o", "n">>,
      <<>> }
DueDates == ValidDueDates \cup InvalidDueDates
DueTimes == {<<>>, <<"1", "5", ":", "3", "0">>}

AddAssignmentArgs ==
    [type : AssignmentTypes, subject : Subjects, description : Descriptions,
     due_date : DueDates, due_time : DueTimes]

\* titles asked to be completed: of a page, part of several pages' titles, of
\* no page, and one the parser raises on
CompleteTitles ==
    { <<"5", " ", "b", "i", "o", " ", "h", "w", "1">>,
      <<"2", " ", "b", "i", "o", " ", "h", "w", "1">>,
      <<"1", " ", "b", "i", "o", " ", "h", "w", "1">>,
      <<"H", " ", "B", "I", "O", " ", "H", "W", "1">>,
      <<"3", "*", " ", "c", "a", "l", "l">>,
      <<"b", "i", "o">>,
      <<"n", "o", "p", "e">>,
      <<" ">> }

Page(id, t, status, due, priority, type, related) ==
    [id |-> id, title |-> t, status |-> status, due |-> due, priority |-> priority,
     type |-> type, related_task_id |-> related]

\* what the database may hold when the server starts
InitialStores ==
    { <<>>,
      << Page(1, <<"H", " ", "B", "I", "O", " ", "H", "W", "1">>, "due",
              <<"2", "0", "2", "4", "-", "0", "3", "-", "0", "6">>, 0, "assignment", 0),
         Page(2, <<"5", " ", "b", "i", "o", " ", "h", "w", "1">>, "",
              <<"2", "0", "2", "4", "-", "0", "3", "-", "0", "1">>, 0, "countdown", 1),
         Page(3, <<"1", " ", "b", "i", "o", " ", "h", "w", "1">>, "",
              <<"2", "0", "2", "4", "-", "0", "2", "-", "2", "9">>, 0, "countdown", 0),
         Page(4, <<"3", "*", " ", "c", "a", "l", "l">>, "", <<>>, 3, "priority", 0) >> }

Todays == {<<2024, 2, 29>>, <<2024, 12, 31>>}

Init ==
    /\ form = [shape |-> "raw", t |-> <<>>]
    /\ title = <<>>
    /\ desc = NoResult
    /\ store \in InitialStores
    /\ today \in Todays
    /\ pc = "idle"
    /\ cmd = [name |-> "none"]
    /\ loc = [fn |-> "none"]
    /\ calls = <<>>
    /\ result = NoResult
    /\ ncmds = 0

PriorityArgs ==
    [priority : {0, 3, 5}, description : {<<"c", "a", "l", "l">>, <<"a", "*">>}]

\* the commands whose arguments call_tool reads
ArgumentTools == {"add_assignment", "add_priority_task", "complete_task"}
ArgumentErrors == {"Invalid arguments", "KeyError"}
UnknownTools == {"delete_task", ""}

Accept ==
    /\ ncmds < MaxCmds
    /\ \/ \E a \in AddAssignmentArgs : CallAddAssignment(a)
       \/ \E t \in CompleteTitles : CallCompleteTask(t)
       \/ \E a \in PriorityArgs : CallAddPriorityTask(a)
       \/ CallShowTodayTasks
       \/ CallShowAllTasks
       \/ CallAddSyllabusBulk
       \/ \E t \in ArgumentTools, e \in ArgumentErrors : CallRejected(t, e)
       \/ \E n \in UnknownTools : CallUnknown(n)

Next ==
    \/ Accept /\ UNCHANGED parseVars
    \/ CreateMain /\ UNCHANGED parseVars
    \/ CreateCountdown /\ UNCHANGED parseVars
    \/ FindTask /\ UNCHANGED parseVars
    \/ UpdateStatus /\ UNCHANGED parseVars
    \/ CreateNext /\ UNCHANGED parseVars
    \/ CreatePriority /\ UNCHANGED parseVars
    \/ QueryToday /\ UNCHANGED parseVars
    \/ QueryAll /\ UNCHANGED parseVars
    \/ Finish /\ UNCHANGED parseVars

Spec == Init /\ [][Next]_vars


----------------------------------------------------------------------------
(* What the claims about the commands speak of *)

Handling(name) == cmd.name = name
Done(name) == pc = "done" /\ cmd.name = name

\* the dictionary the command returned
Returned_(r) == r.exc = "" /\ r.value.type = "text"
ResultDict == result.value.text.json
Failed == Returned_(result) /\ "error" \in DOMAIN ResultDict
Succeeded == Returned_(result) /\ "error" \notin DOMAIN ResultDict

\* the store calls that change the store, failed ones included
Mutations == SelectSeq(calls, LAMBDA c : c.op \in {"create", "update"})

\* the proleptic Gregorian day number of a date, from the calendar's tables
DaysBeforeMonth == <<0, 31, 59, 90, 120, 151, 181, 212, 243, 273, 304, 334>>
Ordinal(dt) ==
    LET y == dt[1] - 1
        leap == dt[1] % 4 = 0 /\ (dt[1] % 100 # 0 \/ dt[1] % 400 = 0)
    IN  y * 365 + (y \div 4) - (y \div 100) + (y \div 400)
          + DaysBeforeMonth[dt[2]] + (IF leap /\ dt[2] > 2 THEN 1 ELSE 0) + dt[3]

----------------------------------------------------------------------------
(* C5 *)

\* C5: a successful add_assignment has issued exactly two store calls, both
\* creates: the anchor first and then the countdown, whose related_task_id is
\* the id the store gave the anchor; the store holds these two pages after
\* the ones it held, and nothing else has changed.  The countdown create is
\* issued only when the anchor is in the store.
C5_TwoCreatesInOrder ==
    /\ Done("add_assignment") /\ Succeeded =>
          /\ Len(calls) = 2
          /\ \A i \in 1..2 : calls[i].op = "create" /\ calls[i].ok
          /\ calls[1].page.type = "assignment"
          /\ calls[2].page.type = "countdown"
          /\ calls[1].page.id \notin {cmd.before[i].id : i \in 1..Len(cmd.before)}
          /\ calls[2].page.related_task_id = calls[1].page.id
          /\ ResultDict.main_task = calls[1].page.id
          /\ ResultDict.countdown_task = calls[2].page.id
          /\ store = cmd.before \o <<calls[1].page, calls[2].page>>
    /\ pc = "create_countdown" =>
          /\ Len(calls) = 1 /\ calls[1].op = "create" /\ calls[1].ok
          /\ store = Append(cmd.before, calls[1].page)
          /\ loc.main_task = calls[1].page.id

C5_Witness ==
    /\ Done("add_assignment") /\ Succeeded
    /\ Len(cmd.before) = 4
    /\ Len(store) = 6
    /\ store[6].related_task_id = 5 /\ store[5].type = "assignment"

----------------------------------------------------------------------------
(* C6 *)

\* C6: whenever add_assignment creates (or tries to create) the countdown, its
\* due date is a calendar date exactly 5 days before the anchor's due date D,
\* also when that lies before today; the anchor's due date is D as given,
\* followed by its time when one was given.
C6_FiveDaysBefore ==
    Handling("add_assignment") =>
        /\ Len(calls) >= 1 =>
              /\ StartsWith(calls[1].page.due, cmd.args.due_date)
              /\ calls[1].page.due # cmd.args.due_date =>
                    /\ cmd.args.due_time # <<>>
                    /\ calls[1].page.due =
                         cmd.args.due_date \o <<"T">> \o cmd.args.due_time \o <<":", "0", "0">>
              /\ cmd.args.due_time = <<>> => calls[1].page.due = cmd.args.due_date
              /\ calls[1].ok => store[calls[1].page.id].due = calls[1].page.due
        /\ Len(calls) >= 2 =>
              /\ Len(calls[2].page.due) = 10
              /\ strptime(calls[2].page.due).exc = ""
              /\ Ordinal(strptime(calls[2].page.due).value)
                   = Ordinal(strptime(cmd.args.due_date).value) - 5
              /\ calls[2].ok => store[calls[2].page.id].due = calls[2].page.due

\* a countdown already overdue when it is created
C6_Witness ==
    /\ Done("add_assignment") /\ Succeeded
    /\ cmd.args.due_date = <<"2", "0", "2", "4", "-", "0", "3", "-", "0", "3">>
    /\ today = <<2024, 12, 31>>
    /\ store[Len(store)].due = <<"2", "0", "2", "4", "-", "0", "2", "-", "2", "7">>
    /\ Ordinal(strptime(store[Len(store)].due).value) < Ordinal(today)

----------------------------------------------------------------------------
(* C7 *)

\* C7: the anchor that add_assignment creates is titled "<type> <S> <D>" with
\* the subject and the description in upper case, has type assignment and
\* status "due" when the type is H, HTN or Q and no status otherwise; the
\* countdown is titled "5 <s> <d>" with both in lower case, has type countdown
\* and no status.
C7_TitlesAndStatus ==
    Handling("add_assignment") =>
        /\ Len(calls) >= 1 =>
              /\ calls[1].page.title =
                    cmd.args.type \o SP \o Upper(cmd.args.subject)
                        \o SP \o Upper(cmd.args.description)
              /\ (cmd.args.subject = <<"B", "i", "o">>
                    /\ cmd.args.description = <<"h", "W", "1">>) =>
                    calls[1].page.title =
                        cmd.args.type \o <<" ", "B", "I", "O", " ", "H", "W", "1">>
              /\ calls[1].page.type = "assignment"
              /\ calls[1].page.status =
                    (IF cmd.args.type \in {<<"H">>, <<"H", "T", "N">>, <<"Q">>}
                     THEN "due" ELSE "")
              /\ calls[1].ok => store[calls[1].page.id] = calls[1].page
        /\ Len(calls) >= 2 =>
              /\ calls[2].page.title =
                    <<"5">> \o SP \o Lower(cmd.args.subject)
                        \o SP \o Lower(cmd.args.description)
              /\ (cmd.args.subject = <<"B", "i", "o">>
                    /\ cmd.args.description = <<"h", "W", "1">>) =>
                    calls[2].page.title = <<"5", " ", "b", "i", "o", " ", "h", "w", "1">>
              /\ calls[2].page.type = "countdown"
              /\ calls[2].page.status = ""
              /\ calls[2].ok => store[calls[2].page.id] = calls[2].page

C7_Witness ==
    /\ Done("add_assignment") /\ Succeeded
    /\ cmd.args.type = <<"X">>
    /\ store[Len(store) - 1].title = <<"X", " ", "B", "I", "O", " ", "H", "W", "1">>
    /\ store[Len(store) - 1].status = ""
    /\ store[Len(store)].title = <<"5", " ", "b", "i", "o", " ", "h", "w", "1">>

----------------------------------------------------------------------------
(* C8 *)

\* C8: add_assignment with a due date that is no calendar date in YYYY-MM-DD
\* returns a failure and issues no store call at all: the store is as it was.
C8_BadDateNoMutation ==
    Handling("add_assignment") /\ cmd.args.due_date \in InvalidDueDates =>
        /\ pc \in {"done", "idle"}
        /\ Failed
        /\ calls = <<>>
        /\ store = cmd.before

C8_Witness ==
    /\ Done("add_assignment") /\ Failed
    /\ cmd.args.due_date = <<"2", "0", "2", "3", "-", "0", "2", "-", "2", "9">>
    /\ store = cmd.before /\ Len(store) = 4

----------------------------------------------------------------------------
(* C9 *)

\* C9: there is no rollback.  When add_assignment's anchor create succeeds and
\* its countdown create fails, the command returns an error, the anchor stays
\* in the store and no further call is issued; when complete_task's status
\* update succeeds and its successor create fails, the command returns an
\* error and the page stays completed.
C9_NoRollback ==
    /\ (/\ Handling("add_assignment") /\ pc \in {"done", "idle"}
        /\ Len(calls) >= 2 /\ calls[1].ok /\ ~calls[2].ok) =>
          /\ Failed
          /\ Len(calls) = 2
          /\ store = Append(cmd.before, calls[1].page)
    /\ (/\ Handling("complete_task") /\ pc \in {"done", "idle"}
        /\ Len(calls) >= 3 /\ calls[2].op = "update" /\ calls[2].ok
        /\ calls[3].op = "create" /\ ~calls[3].ok) =>
          /\ Failed
          /\ Len(calls) = 3
          /\ Len(store) = Len(cmd.before)
          /\ \A i \in 1..Len(store) :
                IF store[i].id = calls[2].id
                THEN store[i] = [cmd.before[i] EXCEPT !.status = "completed"]
                ELSE store[i] = cmd.before[i]

C9_Witness ==
    /\ Done("add_assignment") /\ Failed
    /\ Len(calls) = 2 /\ calls[1].ok /\ ~calls[2].ok
    /\ Len(store) = Len(cmd.before) + 1
    /\ store[Len(store)].type = "assignment"

C9_WitnessComplete ==
    /\ Done("complete_task") /\ Failed
    /\ Len(calls) = 3 /\ calls[2].ok /\ ~calls[3].ok
    /\ store[2].status = "completed" /\ cmd.before[2].status = ""

----------------------------------------------------------------------------
(* C10 *)

\* C10: complete_task whose lookup finds no page returns the not-found
\* failure, having issued the lookup and no other store call; the store is as
\* it was.
C10_NotFoundNoMutation ==
    (/\ Handling("complete_task") /\ pc \in {"done", "idle"}
     /\ calls[1].ok /\ calls[1].results = 0) =>
        /\ Failed
        /\ ResultDict.error.text = "Task '{task_title}' not found"
        /\ ResultDict.error.task_title = cmd.args.task_title
        /\ Len(calls) = 1
        /\ Mutations = <<>>
        /\ store = cmd.before

C10_Witness ==
    /\ Done("complete_task") /\ Failed
    /\ cmd.args.task_title = <<"n", "o", "p", "e">>
    /\ Len(store) = 4 /\ store = cmd.before
    /\ calls[1].results = 0


----------------------------------------------------------------------------
(* C11 *)

\* the title a page had when the command began
TitleBefore(id) ==
    LET i == CHOOSE j \in 1..Len(cmd.before) : cmd.before[j].id = id
    IN  cmd.before[i].title

\* C11: the only page complete_task(task_title) sets to completed is one whose
\* title is exactly task_title; a page whose title merely contains task_title
\* is never updated.
C11_ExactTitleOnly ==
    Handling("complete_task") =>
        \A i \in 1..Len(calls) :
            calls[i].op = "update" /\ calls[i].ok =>
                TitleBefore(calls[i].id) = cmd.args.task_title

----------------------------------------------------------------------------
(* C12 *)

\* the descriptor of the page the lookup matched, from its title
MatchedInfo == parse_task_type(loc.task.title)

Creates == SelectSeq(calls, LAMBDA c : c.op = "create")
Updates == SelectSeq(calls, LAMBDA c : c.op = "update")

\* C12: when complete_task has matched a countdown page with days_left n and
\* has returned without a failure, it has issued exactly one status update, to
\* completed, of that page; then, if n - 1 > 0, exactly one create of a page
\* titled "<n-1> <subject> <description>" of type countdown, due tomorrow,
\* with no related_task_id; and if n - 1 <= 0 no create.
C12_CountdownCompletion ==
    (/\ Done("complete_task") /\ Succeeded
     /\ MatchedInfo.exc = "" /\ MatchedInfo.value.type = "countdown") =>
        LET info == MatchedInfo.value
        IN  /\ Len(Updates) = 1
            /\ Updates[1].id = loc.task.id /\ Updates[1].status = "completed"
            /\ IF info.days_left - 1 > 0
               THEN /\ Len(Creates) = 1
                    /\ Creates[1].page.title =
                          IntToStr(info.days_left - 1) \o SP \o info.subject
                              \o SP \o info.description
                    /\ Creates[1].page.type = "countdown"
                    /\ Creates[1].page.due = strftime(NextDay(today))
                    /\ Creates[1].page.related_task_id = 0
               ELSE Len(Creates) = 0

----------------------------------------------------------------------------
(* C13 *)

\* C13: when complete_task has matched an assignment page and reports
\* success, every countdown page whose related_task_id is that page's id has
\* status completed.
C13_RelatedCountdownsCompleted ==
    (/\ Done("complete_task") /\ Succeeded
     /\ loc.task.type = "assignment" /\ loc.task_info.type = "assignment") =>
        \A i \in 1..Len(store) :
            store[i].type = "countdown" /\ store[i].related_task_id = loc.task.id =>
                store[i].status = "completed"

----------------------------------------------------------------------------
(* C17 *)

\* C17: the descriptor that decides what complete_task does after the status
\* update is the parse of the matched page's title, not of the task_title
\* argument.
C17_ParsesMatchedTitle ==
    Handling("complete_task") /\ "task_info" \in DOMAIN loc =>
        Return(loc.task_info) = parse_task_type(loc.task.title)


----------------------------------------------------------------------------
(* Claims about call_tool as a whole *)

Ended == pc = "done" /\ cmd.name # "none"

\* C14: every command call_tool handles ends with a text payload and never
\* raises to its caller, whatever the arguments and whichever store call
\* fails; an unrecognised command name ends with an error text, and neither a
\* store call nor a change of the store comes of it.
C14_AlwaysTextPayload ==
    /\ result.exc \in {"", "none"}
    /\ Ended => result.exc = "" /\ result.value.type = "text"
    /\ Ended /\ cmd.name = "unknown" =>
           /\ result.value.text.fmt = "Error: {e}"
           /\ calls = <<>>
           /\ store = cmd.before

\* an unknown name arrives while the store holds pages, and the error text is returned
C14_Witness ==
    /\ Ended /\ cmd.name = "unknown"
    /\ store # <<>>
    /\ result = ErrorPayload("Unknown tool: {name}")

\* a store call fails inside add_priority_task and a text payload still comes back
C14_WitnessStoreFailure ==
    /\ Ended /\ cmd.name = "add_priority_task"
    /\ calls # <<>> /\ ~calls[Len(calls)].ok
    /\ result.exc = "" /\ result.value.type = "text"

StoreCommands ==
    {"add_assignment", "add_priority_task", "complete_task", "show_today_tasks",
     "show_all_tasks"}

FailedCalls == SelectSeq(calls, LAMBDA c : ~c.ok)

\* the payload names the error the store call ended with
SurfacesStoreError ==
    /\ result.exc = ""
    /\ LET text == result.value.text
       IN  \/ /\ "json" \in DOMAIN text
              /\ "error" \in DOMAIN text.json
              /\ text.json.error \in StoreErrors
           \/ /\ "e" \in DOMAIN text
              /\ text.e \in StoreErrors

\* C15: in each of add_assignment, add_priority_task, complete_task,
\* show_today_tasks and show_all_tasks, when a store call fails the payload
\* returned carries the error of that call, and the call is not made again:
\* the failed call is the last one and the only failed one.
C15_StoreFailureSurfaced ==
    Ended /\ cmd.name \in StoreCommands /\ Len(FailedCalls) > 0 =>
        /\ SurfacesStoreError
        /\ Len(FailedCalls) = 1
        /\ ~calls[Len(calls)].ok

\* C16: add_priority_task(priority, description) makes exactly one store call,
\* a create, whose record is titled "<priority>* <description>" and typed
\* priority; the store gains that one page when the call succeeds and is left
\* as it was when it fails.
C16_OnePriorityCreate ==
    Ended /\ cmd.name = "add_priority_task" =>
        /\ Len(calls) = 1
        /\ calls[1].op = "create"
        /\ calls[1].page.title =
               IntToStr(cmd.args.priority) \o <<"*", " ">> \o cmd.args.description
        /\ calls[1].page.type = "priority"
        /\ calls[1].page.priority = cmd.args.priority
        /\ IF calls[1].ok
           THEN store = Append(cmd.before, calls[1].page)
           ELSE store = cmd.before

\* add_priority_task(3, "call") has stored a page titled "3* call" after the seeded ones
C16_Witness ==
    /\ Ended /\ cmd.name = "add_priority_task"
    /\ cmd.before # <<>>
    /\ calls[1].ok
    /\ store[Len(store)].title = <<"3", "*", " ", "c", "a", "l", "l">>
    /\ store[Len(store)].type = "priority"

----------------------------------------------------------------------------
(* A countdown chain: the newest countdown of the chain is completed, by its
   own title, until none is left open; every store call succeeds and every
   lookup returns the newest page *)

MaxChain == 3    \* days_left of the first countdown of a chain

ChainRests ==
    { <<" ", "b", "i", "o", " ", "h", "w", "1">>,
      <<" ", "b", "i", "o", " ", "a", " ", "b">>,
      <<" ", "b", "i", "o">> }

ChainInit ==
    /\ form = [shape |-> "raw", t |-> <<>>]
    /\ title = <<>>
    /\ desc = NoResult
    /\ \E n \in 1..MaxChain, rest \in ChainRests, due \in ValidDueDates :
           store = << Page(1, IntToStr(n) \o rest, "", due, 0, "countdown", 0) >>
    /\ today \in Todays
    /\ pc = "idle"
    /\ cmd = [name |-> "none"]
    /\ loc = [fn |-> "none"]
    /\ calls = <<>>
    /\ result = NoResult
    /\ ncmds = 0

Newest == store[Len(store)]
LastCallOk == calls'[Len(calls')].ok

ChainCall ==
    /\ ncmds < MaxChain
    /\ Newest.status # "completed"
    /\ CallCompleteTask(Newest.title)

ChainFind ==
    /\ FindTask
    /\ LastCallOk
    /\ "task" \in DOMAIN loc' => loc'.task.id = Newest.id

ChainNext ==
    \/ ChainCall /\ UNCHANGED parseVars
    \/ ChainFind /\ UNCHANGED parseVars
    \/ UpdateStatus /\ LastCallOk /\ UNCHANGED parseVars
    \/ CreateNext /\ LastCallOk /\ UNCHANGED parseVars
    \/ Finish /\ UNCHANGED parseVars

SpecChain == ChainInit /\ [][ChainNext]_vars

IsCountdown(t, n) ==
    LET info == parse_task_type(t)
    IN  info.exc = "" /\ info.value.type = "countdown" /\ info.value.days_left = n

\* days_left of the countdown the chain starts from
ChainLength == parse_task_type(store[1].title).value.days_left

Completed == {i \in 1..Len(store) : store[i].status = "completed"}

\* C18: a chain started from a countdown with days_left = n >= 1, in which
\* each completion names the newest countdown and finds it, ends after exactly
\* n completions: the i-th page of the chain has days_left = n - (i - 1), so
\* each completion lowers it by one; every page has days_left >= 1; a
\* completion makes one status update and one create, the last one no create;
\* at the end n pages are completed and n - 1 were created.
C18_ChainTerminates ==
    LET n == ChainLength
    IN  /\ n >= 1
        /\ Len(store) <= n
        /\ \A i \in 1..Len(store) :
               /\ IsCountdown(store[i].title, n - (i - 1))
               /\ n - (i - 1) >= 1
        /\ ncmds <= n
        /\ pc = "idle" =>
               /\ Completed = 1..ncmds
               /\ Len(store) = IF ncmds < n THEN ncmds + 1 ELSE n
               /\ Newest.status = "completed" <=> ncmds = n
        /\ pc = "done" =>
               /\ Succeeded
               /\ Len(Updates) = 1 /\ Updates[1].id = ncmds
               /\ Len(Creates) = IF ncmds < n THEN 1 ELSE 0
               /\ Completed = 1..ncmds

\* a chain of three has ended: three completed pages counting 3, 2, 1
C18_Witness ==
    /\ pc = "idle" /\ ncmds = 3
    /\ Len(store) = 3
    /\ \A i \in 1..3 : store[i].status = "completed" /\ IsCountdown(store[i].title, 4 - i)

----------------------------------------------------------------------------
(* The titles the server writes, parsed back *)

WrittenSubjects == {<<>>, <<"b", "i", "o">>, <<"a", "*">>}
WrittenDescriptions ==
    {<<>>, <<"h", "w">>, <<"c", "*">>, <<"*", "d">>, <<"a", " ", "b">>}

WrittenAssignments ==
    [type : AssignmentTypes, subject : WrittenSubjects, description : WrittenDescriptions]

\* the descriptors complete_task can hold when it builds a successor title:
\* those parse_task_type returns for a countdown title with days_left >= 2
WrittenCountdowns ==
    LET ts == {IntToStr(n) \o SP \o s \o SP \o d :
                   n \in 2..3, s \in WrittenSubjects, d \in WrittenDescriptions}
        ok(t) == LET r == parse_task_type(t)
                 IN  r.exc = "" /\ r.value.type = "countdown" /\ r.value.days_left >= 2
    IN  {parse_task_type(t).value : t \in {u \in ts : ok(u)}}

WrittenPriorities == [priority : Priorities, description : WrittenDescriptions]

WrittenForms ==
    [shape : {"anchor"}, a : WrittenAssignments]
      \cup [shape : {"first_countdown"}, a : WrittenAssignments]
      \cup [shape : {"successor"}, task_info : WrittenCountdowns]
      \cup [shape : {"priority_task"}, a : WrittenPriorities]

WrittenTitle(f) ==
    CASE f.shape = "anchor" -> MainTitle(f.a)
      [] f.shape = "first_countdown" -> CountdownTitle(f.a)
      [] f.shape = "successor" -> NextTitle(f.task_info)
      [] f.shape = "priority_task" -> PriorityTitle(f.a.priority, f.a.description)

WrittenInit ==
    /\ form \in WrittenForms
    /\ title = WrittenTitle(form)
    /\ desc = NoResult
    /\ store = <<>> /\ today = <<2024, 2, 29>> /\ pc = "idle"
    /\ cmd = [name |-> "none"] /\ loc = [fn |-> "none"] /\ calls = <<>>
    /\ result = NoResult /\ ncmds = 0

WrittenNext == Parse

SpecWritten == WrittenInit /\ [][WrittenNext]_vars

\* C19: a title the server writes parses back to the kind it was stored with,
\* whatever the arguments: the anchor title of add_assignment to an assignment
\* of the same assignment_type, its countdown title to a countdown with
\* days_left = 5, the successor title of complete_task to a countdown with
\* days_left = n - 1, and the title of add_priority_task to a priority task
\* with the same priority.
C19_WrittenTitlesParseBack ==
    Parsed =>
        /\ desc.exc = ""
        /\ CASE form.shape = "anchor" ->
                    /\ desc.value.type = "assignment"
                    /\ desc.value.assignment_type = form.a.type
             [] form.shape = "first_countdown" ->
                    /\ desc.value.type = "countdown"
                    /\ desc.value.days_left = 5
             [] form.shape = "successor" ->
                    /\ desc.value.type = "countdown"
                    /\ desc.value.days_left = form.task_info.days_left - 1
             [] form.shape = "priority_task" ->
                    /\ desc.value.type = "priority"
                    /\ desc.value.priority = form.a.priority

----------------------------------------------------------------------------
(* complete_task repeated on one countdown title: every lookup returns the
   first page and every store call succeeds *)

MaxRepeat == 2    \* repetitions of complete_task on the same title

RepeatInit ==
    /\ form = [shape |-> "raw", t |-> <<>>]
    /\ title = <<>>
    /\ desc = NoResult
    /\ \E n \in 2..3, rest \in ChainRests, status \in {"", "completed"} :
           store = << Page(1, IntToStr(n) \o rest, status,
                           <<"2", "0", "2", "4", "-", "0", "3", "-", "0", "1">>,
                           0, "countdown", 0) >>
    /\ today \in Todays
    /\ pc = "idle"
    /\ cmd = [name |-> "none"]
    /\ loc = [fn |-> "none"]
    /\ calls = <<>>
    /\ result = NoResult
    /\ ncmds = 0

RepeatCall ==
    /\ ncmds < MaxRepeat
    /\ CallCompleteTask(store[1].title)

RepeatFind ==
    /\ FindTask
    /\ LastCallOk
    /\ "task" \in DOMAIN loc' => loc'.task.id = 1

RepeatNext ==
    \/ RepeatCall /\ UNCHANGED parseVars
    \/ RepeatFind /\ UNCHANGED parseVars
    \/ UpdateStatus /\ LastCallOk /\ UNCHANGED parseVars
    \/ CreateNext /\ LastCallOk /\ UNCHANGED parseVars
    \/ Finish /\ UNCHANGED parseVars

SpecRepeat == RepeatInit /\ [][RepeatNext]_vars

\* C20: complete_task does not look at the status of the page it found: on a
\* countdown title with days_left >= 2 it makes one status update and one
\* create whether or not the page is already completed, so after k
\* repetitions on the same title, each finding the same page, the store holds
\* k successor pages, all with the same title, which counts one day less.
C20_RepeatAddsSuccessors ==
    LET n == ChainLength
    IN  /\ pc \in {"idle", "done"} =>
               /\ Len(store) = 1 + ncmds
               /\ \A i \in 2..Len(store) :
                      /\ store[i].title = store[2].title
                      /\ IsCountdown(store[i].title, n - 1)
                      /\ store[i].status = ""
        /\ pc = "done" =>
               /\ Succeeded
               /\ Len(Updates) = 1
               /\ Updates[1].id = 1 /\ Updates[1].status = "completed"
               /\ Len(Creates) = 1
               /\ Creates[1].page = store[Len(store)]
               /\ Len(calls) = 3

\* the second repetition found the page already completed and added a second
\* successor with the title of the first
C20_Witness ==
    /\ pc = "done" /\ ncmds = 2
    /\ cmd.before[1].status = "completed"
    /\ Len(store) = 3
    /\ store[2].title = store[3].title

----------------------------------------------------------------------------
(* The commands that only read *)

ReadOnlyCommands == {"show_today_tasks", "show_all_tasks", "add_syllabus_bulk"}

C21_WitnessToday ==
    /\ Ended /\ cmd.name = "show_today_tasks"
    /\ Len(calls) = 1 /\ calls[1].ok /\ calls[1].results >= 1

\* add_syllabus_bulk has ended on a store that holds pages
C21_WitnessSyllabus ==
    /\ Ended /\ cmd.name = "add_syllabus_bulk"
    /\ store # <<>> /\ calls = <<>>
=============================================================================
